---- MODULE Spec2Model ----
(***************************************************************************)
(* Model of scnsbm/inference.py: prune_groups, nested_model, fast_model.   *)
(*                                                                         *)
(* The inference engine (graph-tool), pandas and scikit-learn are external *)
(* libraries; the model states what the code does with them.  The engine's *)
(* answers (partitions, faults, its reaction to an accumulator built for   *)
(* another graph) are nondeterministic choices over small sets.            *)
(***************************************************************************)
EXTENDS Integers, Sequences, FiniteSets, TLC

\* ------------------------------------------------------------------ bounds
NumNodes == 3        \* g.num_vertices()
MaxLevels == 2       \* largest len(bs)
MaxIter == 2         \* most callback invocations in one collection phase
MaxCalls == 2        \* calls of nested_model / fast_model in one process

Nodes == 0 .. (NumNodes - 1)
RawIds == 0 .. (NumNodes - 1)

\* ------------------------------------------------------------- text values
\* Python strings are sequences of one-character strings.
Digits == <<"0", "1", "2", "3", "4", "5", "6", "7", "8", "9">>

\* u'%s' % cn and the %d of "%s_level_%d": the decimal numeral of n >= 0.
RECURSIVE Str(_)
Str(n) ==
    IF n < 10 THEN <<Digits[n + 1]>>
    ELSE Str(n \div 10) \o <<Digits[(n % 10) + 1]>>

\* '%s_level_' % key_added
LevelPrefix(key) == key \o <<"_", "l", "e", "v", "e", "l", "_">>

\* "%s_level_%d" % (key_added, level)
ColumnName(key, level) == LevelPrefix(key) \o Str(level)

\* x.startswith(p)
StartsWith(x, p) == Len(x) >= Len(p) /\ SubSeq(x, 1, Len(p)) = p

\* ---------------------------------------------------------------- helpers
RECURSIVE SortedSeq(_)
SortedSeq(S) ==
    IF S = {} THEN << >>
    ELSE LET m == CHOOSE x \in S : \A y \in S : x <= y
         IN  <<m>> \o SortedSeq(S \ {m})

Range(s) == {s[i] : i \in DOMAIN s}

RECURSIVE SumOver(_, _)
SumOver(f, S) ==
    IF S = {} THEN 0
    ELSE LET x == CHOOSE y \in S : TRUE
         IN  f[x] + SumOver(f, S \ {x})

PositionOf(s, v) == CHOOSE i \in DOMAIN s : s[i] = v

\* The first node, in index order, that carries r in col.
FirstIndex(col, r) ==
    CHOOSE m \in Nodes : col[m] = r /\ \A k \in Nodes : col[k] = r => m <= k

\* The distinct values of col in the order of their first occurrence.
RECURSIVE FirstSeenSeq(_, _)
FirstSeenSeq(col, S) ==
    IF S = {} THEN << >>
    ELSE LET m == CHOOSE x \in S : \A y \in S : FirstIndex(col, x) <= FirstIndex(col, y)
         IN  <<m>> \o FirstSeenSeq(col, S \ {m})

\* ------------------------------------------------------------ relabelling
\* pd.DataFrame(groups).astype('category'), one column: the categories are
\* the distinct values in ascending order, the codes index into them.
\* Fault: categories taken in order of first occurrence instead of sorted.
AsCategoryFirstSeen(col) ==
    LET cats == FirstSeenSeq(col, {col[n] : n \in Nodes})
    IN  [codes |-> [n \in Nodes |-> PositionOf(cats, col[n]) - 1],
         categories |-> cats]

AsCategory(col) ==
    LET cats == SortedSeq({col[n] : n \in Nodes})
    IN  [codes |-> [n \in Nodes |-> PositionOf(cats, col[n]) - 1],
         categories |-> cats]

\* dict([(cx, u'%s' % cn) for cn, cx in enumerate(....cat.categories)])
\* Fault: the raw id itself is used as the new name (cx for cn).
NewCatNamesRaw(cat) == [cx \in Range(cat.categories) |-> Str(cx)]

NewCatNames(cat) ==
    [cx \in Range(cat.categories) |-> Str(PositionOf(cat.categories, cx) - 1)]

\* .cat.rename_categories(new_cat_names, inplace=True)
RenameCategories(cat, names) ==
    [codes |-> cat.codes,
     categories |-> [i \in DOMAIN cat.categories |-> names[cat.categories[i]]]]

\* One column, lines 278-283: raw ids -> categorical with names '0'..'B-1'.
RelabelColumn(col) ==
    LET cat == AsCategory(col)
    IN  RenameCategories(cat, NewCatNames(cat))

\* The whole table; rawtab is a sequence of columns, level l at index l+1.
Relabel(rawtab) == [i \in DOMAIN rawtab |-> RelabelColumn(rawtab[i])]

\* The label a categorical column shows for node n.
LabelOf(cat, n) == cat.categories[cat.codes[n] + 1]
Labels(cat) == [n \in Nodes |-> LabelOf(cat, n)]
NumGroups(cat) == Len(cat.categories)

\* groups.columns = ["%s_level_%d" % (key_added, level) for level in ...]
GroupColumns(key, n) == [i \in 1 .. n |-> ColumnName(key, i - 1)]

\* ---------------------------------------------------------------- pruning
SamePartition(a, b) ==
    \A m, n \in Nodes : (a[m] = a[n]) <=> (b[m] = b[n])

\* sklearn's adjusted_mutual_info_score(a, b) == 1.  Two one-class columns
\* score 1.0 by its special case; otherwise the score is
\* (MI - EMI) / (mean(H) - EMI), which is 1 exactly for identical partitions,
\* except that for two all-singleton columns MI = EMI = H and the quotient is
\* 0/0: `limit` is what the library build makes of that case.
AmiIsOne(a, b, limit) ==
    LET classes == {a[n] : n \in Nodes}
        clusters == {b[n] : n \in Nodes}
    IN  IF Cardinality(classes) = 1 /\ Cardinality(clusters) = 1 THEN TRUE
        ELSE IF Cardinality(classes) = NumNodes /\ Cardinality(clusters) = NumNodes
             THEN limit
        ELSE SamePartition(a, b)

\* prune_groups(groups, inverse): cols are groups.columns, cats the columns.
\* mi_groups[x-1] = ami(column x-1, column x) for x in 1 .. n_groups-1, and
\* the result is groups.columns[np.where(mi_groups == 1)] (or != 1).
\* Fault: inverse=True names the later column of each differing pair.
prune_groups_shifted(cols, cats, inverse, limit) ==
    LET n_groups == Len(cats)
        mi_is_one == [x \in 1 .. (n_groups - 1) |->
                        AmiIsOne(Labels(cats[x]), Labels(cats[x + 1]), limit)]
    IN  IF inverse
        THEN {cols[x + 1] : x \in {y \in 1 .. (n_groups - 1) : ~mi_is_one[y]}}
        ELSE {cols[x] : x \in {y \in 1 .. (n_groups - 1) : mi_is_one[y]}}

prune_groups(cols, cats, inverse, limit) ==
    LET n_groups == Len(cats)
        mi_is_one == [x \in 1 .. (n_groups - 1) |->
                        AmiIsOne(Labels(cats[x]), Labels(cats[x + 1]), limit)]
        where == {x \in 1 .. (n_groups - 1) :
                    IF inverse THEN ~mi_is_one[x] ELSE mi_is_one[x]}
    IN  {cols[x] : x \in where}

\* ------------------------------------------------------------ aggregation
\* pd.crosstab(groups[l0], groups[level]): counts per (row category, column
\* category), rows and columns in category order.
CrossTab(cat0, catl) ==
    [r \in 0 .. (NumGroups(cat0) - 1) |->
        [c \in 0 .. (NumGroups(catl) - 1) |->
            Cardinality({n \in Nodes : cat0.codes[n] = r /\ catl.codes[n] = c})]]

\* lines 349-356 for one level: cl[:, x] = c0[:, where(cross_tab[:, x] > 0)].sum
\* Fault: every level-0 column is summed (the test > 0 dropped).
DerivedMarginalsAllRows(c0, cat0, catl) ==
    LET cross_tab == CrossTab(cat0, catl)
    IN  [n \in Nodes |->
            [x \in 0 .. (NumGroups(catl) - 1) |->
                SumOver(c0[n], DOMAIN cross_tab)]]

DerivedMarginals(c0, cat0, catl) ==
    LET cross_tab == CrossTab(cat0, catl)
    IN  [n \in Nodes |->
            [x \in 0 .. (NumGroups(catl) - 1) |->
                SumOver(c0[n], {r \in DOMAIN cross_tab : cross_tab[r][x] > 0})]]

\* ------------------------------------------------------- engine's answers
ConstColumn == [n \in Nodes |-> 0]
IdentityColumn == [n \in Nodes |-> n]
SparseColumn == [n \in Nodes |-> IF n = 0 THEN 0 ELSE NumNodes - 1]

IdentityMap == [i \in RawIds |-> i]
MergeAllMap == [i \in RawIds |-> 0]
ReverseMap == [i \in RawIds |-> (NumNodes - 1) - i]
MergeUpperMap == [i \in RawIds |-> IF i = 0 THEN 0 ELSE 1]

\* state.project_partition(x, 0) for x in range(len(bs)): level x is a
\* coarsening of level x-1 (its block ids mapped by the level's own b).
RECURSIVE Tables(_, _, _)
Tables(level0, maps, L) ==
    IF L = 1 THEN {<<c>> : c \in level0}
    ELSE {Append(t, [n \in Nodes |-> f[t[L - 1][n]]]) :
            t \in Tables(level0, maps, L - 1), f \in maps}

\* What the engine may hand back in a run of the whole pipeline.
EngineTables(L) == Tables({IdentityColumn, SparseColumn}, {IdentityMap, MergeAllMap}, L)

\* The partitions the sampler visits while marginals are collected.
SampleTables(L) == Tables({ConstColumn, IdentityColumn}, {MergeAllMap}, L)

\* sl.get_nonempty_B() of level l (0-based) for a partition table.
NonemptyB(tab, l) == Cardinality({tab[l + 1][n] : n \in Nodes})

\* -------------------------------------------------------------- the state
VARIABLES
    pc,                 \* position in the running call, "idle" between calls
    error,              \* the exception that ended the call, "none" otherwise
    fn,                 \* "nested_model" or "fast_model"
    calls,              \* calls made so far in this process
    trace,              \* engine operations and phases of the running call, in order
    collect_marginals,  \* parameter
    equilibrate,        \* parameter (fast_model always equilibrates)
    key_added,          \* parameter
    return_low,         \* parameter
    prune,              \* parameter
    n_levels,           \* len(bs)
    raw,                \* the integer array `groups` filled from project_partition
    groups,             \* the categorical DataFrame `groups`, one entry per level
    group_marginals,    \* the local list of per-level vectors of length N+1
    niter,              \* callback invocations of the running collection phase
    own,                \* level-0 counts of the samples handed to this call's callback
    cell_marginals,     \* the module-level global, "unset" before its first assignment
    obs,                \* adata.obs: the columns in order, [name, col]
    uns,                \* adata.uns: << >>, or <<d>> with d = adata.uns['nsbm']
    obs0,               \* adata.obs when the running call was entered
    uns0,               \* adata.uns when the running call was entered
    to_remove,          \* prune_groups(groups)
    to_keep,            \* prune_groups(groups, inverse=True)
    ami_limit           \* what ami() == 1 gives on two all-singleton columns

vars == <<pc, error, fn, calls, trace, collect_marginals, equilibrate, key_added,
          return_low, prune, n_levels, raw, groups, group_marginals, niter, own,
          cell_marginals, obs, uns, obs0, uns0, to_remove, to_keep, ami_limit>>

\* the locals of a call and the parameters read after its entry
locals == <<key_added, return_low, prune, n_levels, raw, groups, group_marginals,
            niter, own, to_remove, to_keep, ami_limit>>

params == <<fn, collect_marginals, equilibrate>>

container == <<obs, uns, obs0, uns0>>

Keys == {<<"a">>}

ZeroCounts == [n \in Nodes |-> [g \in RawIds |-> 0]]

\* One entry of the list cell_marginals: None, or the vertex property map the
\* engine returned.  owner is the call whose graph the map belongs to, n the
\* samples added to it, cnt its level-0 histogram (node, raw group id); the
\* histograms of the upper levels' block graphs are not read by the code
\* and are kept as n alone.
None == [none |-> TRUE, owner |-> 0, n |-> 0, cnt |-> ZeroCounts]

\* The global before its first assignment (reading it is a NameError).
Unset == [set |-> FALSE, maps |-> << >>]

\* A column some earlier tool left in adata.obs.
UserColumn == [codes |-> [n \in Nodes |-> 0], categories |-> << <<"u">> >>]

InitObs ==
    << [name |-> <<"c">>, col |-> UserColumn],
       [name |-> LevelPrefix(<<"a">>) \o <<"x">>, col |-> UserColumn],
       [name |-> ColumnName(<<"a", "b">>, 1), col |-> UserColumn] >>

LocalsReset ==
    /\ key_added' = << >>
    /\ return_low' = FALSE
    /\ prune' = FALSE
    /\ n_levels' = 0
    /\ raw' = << >>
    /\ groups' = << >>
    /\ group_marginals' = << >>
    /\ niter' = 0
    /\ own' = ZeroCounts
    /\ to_remove' = {}
    /\ to_keep' = {}
    /\ ami_limit' = FALSE

Init ==
    /\ pc = "idle"
    /\ error = "none"
    /\ fn = "none"
    /\ calls = 0
    /\ trace = << >>
    /\ collect_marginals = FALSE
    /\ equilibrate = FALSE
    /\ key_added = << >>
    /\ return_low = FALSE
    /\ prune = FALSE
    /\ n_levels = 0
    /\ raw = << >>
    /\ groups = << >>
    /\ group_marginals = << >>
    /\ niter = 0
    /\ own = ZeroCounts
    /\ cell_marginals = Unset
    /\ obs = InitObs
    /\ uns = << >>
    /\ obs0 = InitObs
    /\ uns0 = << >>
    /\ to_remove = {}
    /\ to_keep = {}
    /\ ami_limit = FALSE

\* An exception leaves the function: nothing after the raising line runs.
Raise(e) ==
    /\ pc' = "failed"
    /\ error' = e

\* ------------------------------------------------------------------ entry
\* Lines 155-178: seed the generators when random_seed is truthy, then the
\* check of collect_marginals against equilibrate.
CallNested ==
    /\ pc = "idle"
    /\ calls < MaxCalls
    /\ \E random_seed \in {0, 1}, cm \in BOOLEAN, eq \in BOOLEAN :
        /\ fn' = "nested_model"
        /\ collect_marginals' = cm
        /\ equilibrate' = eq
        /\ trace' = IF random_seed # 0 THEN <<"seed_rng">> ELSE << >>
        /\ IF cm /\ ~eq
           THEN Raise("ValueError: collect without equilibrate")
           ELSE pc' = "graph" /\ error' = "none"
    /\ calls' = calls + 1
    /\ obs0' = obs
    /\ uns0' = uns
    /\ UNCHANGED <<locals, cell_marginals, obs, uns>>

\* Lines 523-540: fast_model has no equilibrate parameter and no such check.
CallFast ==
    /\ pc = "idle"
    /\ calls < MaxCalls
    /\ \E random_seed \in {0, 1}, cm \in BOOLEAN :
        /\ fn' = "fast_model"
        /\ collect_marginals' = cm
        /\ equilibrate' = TRUE
        /\ trace' = IF random_seed # 0 THEN <<"seed_rng">> ELSE << >>
    /\ pc' = "graph"
    /\ error' = "none"
    /\ calls' = calls + 1
    /\ obs0' = obs
    /\ uns0' = uns
    /\ UNCHANGED <<locals, cell_marginals, obs, uns>>

\* Lines 180-199 / 542-561: the adjacency and the engine's graph.  It fails
\* when adata.uns has no 'neighbors' or the engine rejects the matrix.
BuildGraph ==
    /\ pc = "graph"
    /\ trace' = Append(trace, "build_graph")
    /\ \E ok \in BOOLEAN :
        IF ok THEN pc' = "state" /\ error' = "none"
        ELSE Raise("ValueError: no graph")
    /\ UNCHANGED <<params, calls, locals, cell_marginals, container>>

\* Lines 201-221: minimize_nested_blockmodel_dl, bs padded to hierarchy_length.
Minimize ==
    /\ pc = "state"
    /\ fn = "nested_model"
    /\ trace' = Append(trace, "Minimize")
    /\ \E ok \in BOOLEAN, L \in 1 .. MaxLevels :
        IF ok THEN pc' = "sweep" /\ error' = "none" /\ n_levels' = L
        ELSE Raise("engine fault") /\ n_levels' = n_levels
    /\ UNCHANGED <<params, calls, key_added, return_low, prune, raw, groups,
                   group_marginals, niter, own, to_remove, to_keep, ami_limit,
                   cell_marginals, container>>

\* Lines 562-576: fast_model starts from bs = [zeros(1)] * hierarchy_length.
InitState ==
    /\ pc = "state"
    /\ fn = "fast_model"
    /\ trace' = Append(trace, "NestedBlockState")
    /\ \E ok \in BOOLEAN, hierarchy_length \in 1 .. MaxLevels :
        IF ok THEN pc' = "equilibrate" /\ error' = "none" /\ n_levels' = hierarchy_length
        ELSE Raise("engine fault") /\ n_levels' = n_levels
    /\ UNCHANGED <<params, calls, key_added, return_low, prune, raw, groups,
                   group_marginals, niter, own, to_remove, to_keep, ami_limit,
                   cell_marginals, container>>

\* Lines 223-229: the sweep (multiflip or not).
Sweep ==
    /\ pc = "sweep"
    /\ trace' = Append(trace, "Sweep")
    /\ \E ok \in BOOLEAN :
        IF ok THEN pc' = "equilibrate" /\ error' = "none"
        ELSE Raise("engine fault")
    /\ UNCHANGED <<params, calls, locals, cell_marginals, container>>

\* Lines 232-240 / 578-587: mcmc_equilibrate without callback.
Equilibrate ==
    /\ pc = "equilibrate"
    /\ equilibrate
    /\ trace' = Append(trace, "Equilibrate")
    /\ \E ok \in BOOLEAN :
        IF ok THEN pc' = (IF collect_marginals THEN "collect" ELSE "project")
                   /\ error' = "none"
        ELSE Raise("engine fault")
    /\ UNCHANGED <<params, calls, locals, cell_marginals, container>>

\* Line 232 with equilibrate false: lines 233-266 are skipped as a whole.
SkipEquilibrate ==
    /\ pc = "equilibrate"
    /\ ~equilibrate
    /\ pc' = "project"
    /\ UNCHANGED <<error, trace, params, calls, locals, cell_marginals, container>>

\* ----------------------------------------------------- marginal collection
\* sl.collect_vertex_marginals(p): p None makes a new map, otherwise the
\* sample is added to p itself.
CollectVertexMarginals(p, sample, l) ==
    LET base == IF p.none
                THEN [none |-> FALSE, owner |-> calls, n |-> 0, cnt |-> ZeroCounts]
                ELSE p
    IN  [base EXCEPT
            !.n = @ + 1,
            !.cnt = IF l = 0
                    THEN [v \in Nodes |-> [g \in RawIds |->
                            IF sample[1][v] = g THEN @[v][g] + 1 ELSE @[v][g]]]
                    ELSE @]

\* A map of an earlier call's graph handed to this call's engine state.
Stale(p) == ~p.none /\ p.owner # calls

\* Lines 241-245 / 588-592: the local accumulator, one vector of N+1 zeros
\* per level.  The global cell_marginals is not touched here.
BeginCollect ==
    /\ pc = "collect"
    /\ pc' = "collecting"
    /\ trace' = Append(trace, "MarginalCollect")
    /\ group_marginals' = [i \in 1 .. n_levels |-> [b \in 0 .. NumNodes |-> 0]]
    /\ niter' = 0
    /\ UNCHANGED <<error, params, calls, key_added, return_low, prune, n_levels,
                   raw, groups, own, to_remove, to_keep, ami_limit, cell_marginals,
                   container>>

\* Lines 246-260 / 593-607: one invocation of _collect_marginals(s).  sample
\* is the partition of s; accept is whether the engine takes a map that
\* belongs to another graph (it raises ValueError when it does not).
Callback ==
    /\ pc = "collecting"
    /\ niter < MaxIter
    /\ \E sample \in SampleTables(n_levels), accept \in BOOLEAN :
        /\ group_marginals' =
              [i \in 1 .. n_levels |->
                  [group_marginals[i] EXCEPT ![NonemptyB(sample, i - 1)] = @ + 1]]
        /\ own' = [v \in Nodes |-> [own[v] EXCEPT ![sample[1][v]] = @ + 1]]
        /\ niter' = niter + 1
        /\ LET have == Len(cell_marginals.maps)
               upto == IF have < n_levels THEN have ELSE n_levels
               rejected == \E i \in 1 .. upto : Stale(cell_marginals.maps[i]) /\ ~accept
               updated == [i \in 1 .. have |->
                             IF i <= upto
                             THEN CollectVertexMarginals(cell_marginals.maps[i], sample, i - 1)
                             ELSE cell_marginals.maps[i]]
           IN  IF ~cell_marginals.set \/ rejected
               THEN \* NameError or ValueError: the except branch
                    /\ cell_marginals' = [set |-> TRUE, maps |-> [i \in 1 .. n_levels |-> None]]
                    /\ UNCHANGED <<pc, error>>
               ELSE IF have < n_levels
               THEN \* cell_marginals[l] with l = have: IndexError, not caught
                    /\ cell_marginals' = [set |-> TRUE, maps |-> updated]
                    /\ Raise("IndexError: cell_marginals[l]")
               ELSE /\ cell_marginals' = [set |-> TRUE, maps |-> SubSeq(updated, 1, n_levels)]
                    /\ UNCHANGED <<pc, error>>
    /\ UNCHANGED <<trace, params, calls, key_added, return_low, prune, n_levels,
                   raw, groups, to_remove, to_keep, ami_limit, container>>

\* Lines 262-266 / 609-613: mcmc_equilibrate(..., callback=...) returns.
EndCollect ==
    /\ pc = "collecting"
    /\ \E ok \in BOOLEAN :
        IF ok THEN pc' = "project" /\ error' = "none"
        ELSE Raise("engine fault")
    /\ UNCHANGED <<trace, params, calls, locals, cell_marginals, container>>

\* ------------------------------------------------------------- relabelling
\* Lines 268-291 / 615-638: project every level to the nodes, make the
\* columns categorical, rename the categories, name the columns.
Project ==
    /\ pc = "project"
    /\ trace' = Append(trace, "Relabel")
    /\ \E ok \in BOOLEAN, tab \in EngineTables(n_levels), key \in Keys :
        IF ok
        THEN /\ raw' = tab
             /\ groups' = Relabel(tab)
             /\ key_added' = key
             /\ pc' = "attach"
             /\ error' = "none"
        ELSE /\ Raise("engine fault")
             /\ UNCHANGED <<raw, groups, key_added>>
    /\ UNCHANGED <<params, calls, return_low, prune, n_levels, group_marginals,
                   niter, own, to_remove, to_keep, ami_limit, cell_marginals,
                   container>>

\* ------------------------------------------------------------------ output
\* Line 294-295: keep_columns.
\* Fault: nothing is removed before the new columns are concatenated.
KeepColumnsAll(o, key) == o

KeepColumns(o, key) ==
    SelectSeq(o, LAMBDA c : ~StartsWith(c.name, LevelPrefix(key)))

\* Lines 299-302: the columns of `groups` that are concatenated.
\* Fault: level 0 is concatenated whatever return_low says.
NewColumnsAllLevels(key, g, low) ==
    [i \in 1 .. Len(g) |-> [name |-> GroupColumns(key, Len(g))[i], col |-> g[i]]]

NewColumns(key, g, low) ==
    LET first == IF low THEN 1 ELSE 2
    IN  [i \in 1 .. (Len(g) - first + 1) |->
            [name |-> GroupColumns(key, Len(g))[i + first - 1],
             col |-> g[i + first - 1]]]

\* Lines 293-302 / 640-649.
AttachColumns(o, key, g, low) == KeepColumns(o, key) \o NewColumns(key, g, low)

Attach ==
    /\ pc = "attach"
    /\ trace' = Append(trace, "Finalize.columns")
    /\ \E low \in BOOLEAN :
        /\ return_low' = low
        /\ obs' = AttachColumns(obs, key_added, groups, low)
    /\ pc' = "stats"
    /\ UNCHANGED <<error, params, calls, key_added, prune, n_levels, raw, groups,
                   group_marginals, niter, own, to_remove, to_keep, ami_limit,
                   cell_marginals, uns, obs0, uns0>>

\* Lines 307-327 / 654-668: the keys of adata.uns['nsbm']['stats'].
StatsKeys(f, eq) ==
    IF f = "nested_model"
    THEN {"sweep_dS", "sweep_nattempts", "sweep_nmoves", "level_entropy", "modularity"}
         \cup (IF eq THEN {"equlibrate_dS", "equlibrate_nattempts", "equlibrate_nmoves"}
               ELSE {})
    ELSE {"dS", "nattempts", "nmoves", "level_entropy", "modularity"}

\* Line 306 / 653 and 307 / 654: adata.uns['nsbm'] = {} replaces whatever
\* record u held, then the 'stats' entry is stored in the new one.
\* Fault: the record of an earlier call is updated instead of replaced.
StatsRecordUpdated(u, keys) ==
    IF u = << >> THEN << ("stats" :> keys) >>
    ELSE << ("stats" :> keys) @@ u[1] >>

StatsRecord(u, keys) == << ("stats" :> keys) >>

\* Lines 304-333 / 651-674: adata.uns['nsbm'] = {} and its 'stats' entry,
\* from engine calls (level_entropy, modularity, mf_entropy).  save_state is
\* left at its default (False).
Stats ==
    /\ pc = "stats"
    /\ trace' = Append(trace, "Finalize.stats")
    /\ \E ok \in BOOLEAN, mf_ok \in BOOLEAN :
        LET keys == StatsKeys(fn, equilibrate)
        IN  IF ~ok
            THEN \* level_entropy or modularity fails: only the empty dict is stored
                 /\ uns' = << << >> >>
                 /\ Raise("engine fault")
            ELSE IF collect_marginals /\ ~cell_marginals.set
            THEN /\ uns' = StatsRecord(uns, keys)
                 /\ Raise("NameError: cell_marginals")
            ELSE IF collect_marginals /\ Len(cell_marginals.maps) < n_levels
            THEN /\ uns' = StatsRecord(uns, keys)
                 /\ Raise("IndexError: cell_marginals[l]")
            ELSE IF collect_marginals /\ ~mf_ok
            THEN /\ uns' = StatsRecord(uns, keys)
                 /\ Raise("engine fault")
            ELSE /\ uns' = StatsRecord(uns, IF collect_marginals
                                                 THEN keys \cup {"mf_entropy"}
                                                 ELSE keys)
                 /\ pc' = (IF collect_marginals THEN "aggregate" ELSE "prune")
                 /\ error' = "none"
    /\ UNCHANGED <<params, calls, locals, cell_marginals, obs, obs0, uns0>>

\* Lines 343-345 / 684-686: c0 = cell_marginals[0].get_2d_array(range(B0)).T
LevelZeroCounts(p, l0_ngroups) ==
    [n \in Nodes |-> [g \in 0 .. (l0_ngroups - 1) |-> p.cnt[n][g]]]

\* Lines 340-356 / 681-697: adata.uns['nsbm']['cell_marginals'], level l at
\* index l+1.
CellMarginals(p, g) ==
    LET c0 == LevelZeroCounts(p, NumGroups(g[1]))
    IN  [i \in 1 .. Len(g) |->
            IF i = 1 THEN c0 ELSE DerivedMarginals(c0, g[1], g[i])]

Aggregate ==
    /\ pc = "aggregate"
    /\ trace' = Append(trace, "Aggregate")
    /\ IF cell_marginals.maps[1].none
       THEN \* None.get_2d_array: the entry is still the empty dict
            /\ uns' = << uns[1] @@ ("cell_marginals" :> << >>) >>
            /\ Raise("AttributeError: NoneType")
       ELSE /\ uns' = << uns[1] @@
                         ("cell_marginals" :> CellMarginals(cell_marginals.maps[1], groups)) >>
            /\ pc' = "trim"
            /\ error' = "none"
    /\ UNCHANGED <<params, calls, locals, cell_marginals, obs, obs0, uns0>>

\* Lines 364-365: idx = np.where(v > 0)[0] + 1; v[:np.max(idx)].
Nonzero(v) == {i \in DOMAIN v : v[i] > 0}

MaxOf(S) == CHOOSE x \in S : \A y \in S : y <= x

TrimVector(v) == [i \in 1 .. (MaxOf(Nonzero(v)) + 1) |-> v[i - 1]]

\* Lines 360-365 / 701-706: np.max of an empty idx raises ValueError, with
\* the entry already set to the empty list.
Trim ==
    /\ pc = "trim"
    /\ IF \E i \in 1 .. n_levels : Nonzero(group_marginals[i]) = {}
       THEN /\ uns' = << uns[1] @@ ("group_marginals" :> << >>) >>
            /\ Raise("ValueError: zero-size array")
       ELSE /\ uns' = << uns[1] @@
                         ("group_marginals" :>
                            [i \in 1 .. n_levels |-> TrimVector(group_marginals[i])]) >>
            /\ pc' = "prune"
            /\ error' = "none"
    /\ UNCHANGED <<trace, params, calls, locals, cell_marginals, obs, obs0, uns0>>

ColumnNames(o) == {o[i].name : i \in DOMAIN o}

\* adata.obs.drop(labels, axis='columns', inplace=True), labels all present.
DropColumns(o, labels) == SelectSeq(o, LAMBDA c : c.name \notin labels)

\* Lines 369-375 / 710-716.
Prune ==
    /\ pc = "prune"
    /\ \E p \in BOOLEAN, limit \in BOOLEAN :
        /\ prune' = p
        /\ ami_limit' = (p /\ limit)
        /\ (p \/ ~limit)
        /\ IF p
           THEN LET rm == prune_groups(GroupColumns(key_added, n_levels), groups,
                                       FALSE, limit)
                IN  /\ to_remove' = rm
                    /\ trace' = Append(trace, "Prune")
                    /\ IF rm \subseteq ColumnNames(obs)
                       THEN /\ obs' = DropColumns(obs, rm)
                            /\ pc' = "finalize"
                            /\ error' = "none"
                       ELSE /\ obs' = obs
                            /\ Raise("KeyError: not found in axis")
           ELSE /\ pc' = "finalize"
                /\ UNCHANGED <<to_remove, trace, obs, error>>
    /\ UNCHANGED <<params, calls, key_added, return_low, n_levels, raw, groups,
                   group_marginals, niter, own, to_keep, cell_marginals, uns,
                   obs0, uns0>>

\* Lines 377-398 / 718-737: the 'params' entry, then the closing log line,
\* whose f-string reads state.get_levels()[1].
Finalize ==
    /\ pc = "finalize"
    /\ trace' = Append(trace, "Finalize.params")
    /\ uns' = << uns[1] @@
                 ("params" :> [equilibrate |-> equilibrate,
                               collect_marginals |-> collect_marginals,
                               prune |-> prune]) >>
    /\ IF n_levels < 2
       THEN Raise("IndexError: get_levels()[1]")
       ELSE pc' = "done" /\ error' = "none"
    /\ UNCHANGED <<params, calls, locals, cell_marginals, obs, obs0, uns0>>

\* The call is over (returned or raised); its locals are gone, the global
\* cell_marginals and the container stay.
Return ==
    /\ pc \in {"done", "failed"}
    /\ pc' = "idle"
    /\ error' = "none"
    /\ trace' = << >>
    /\ LocalsReset
    /\ fn' = "none"
    /\ collect_marginals' = FALSE
    /\ equilibrate' = FALSE
    /\ obs0' = obs
    /\ uns0' = uns
    /\ UNCHANGED <<calls, cell_marginals, obs, uns>>

Next ==
    \/ CallNested
    \/ CallFast
    \/ BuildGraph
    \/ Minimize
    \/ InitState
    \/ Sweep
    \/ Equilibrate
    \/ SkipEquilibrate
    \/ BeginCollect
    \/ Callback
    \/ EndCollect
    \/ Project
    \/ Attach
    \/ Stats
    \/ Aggregate
    \/ Trim
    \/ Prune
    \/ Finalize
    \/ Return

Spec == Init /\ [][Next]_vars

\* ===================================================== the pure functions
\* Relabelling, pruning and aggregation applied to every table of a bounded
\* family: any level-0 column, each upper level a map of the one below.
MaxTableLevels == 3

AllColumns == [Nodes -> RawIds]

InputTables(L) ==
    Tables(AllColumns, {IdentityMap, MergeAllMap, ReverseMap, MergeUpperMap}, L)

\* The level-0 map after the collection phase visited the partitions in
\* `samples`, one per counted callback invocation.
Accumulated(samples) ==
    [none |-> FALSE, owner |-> 1, n |-> Len(samples),
     cnt |-> [v \in Nodes |-> [g \in RawIds |->
                Cardinality({i \in DOMAIN samples : samples[i][v] = g})]]]

InputAccumulators ==
    {Accumulated(<<IdentityColumn>>),
     Accumulated(<<IdentityColumn, ConstColumn>>),
     Accumulated(<<IdentityColumn, SparseColumn>>)}

InitPost ==
    /\ pc = "fn"
    /\ error = "none"
    /\ fn = "none"
    /\ calls = 1
    /\ trace = << >>
    /\ collect_marginals = TRUE
    /\ equilibrate = TRUE
    /\ key_added = <<"a">>
    /\ return_low = FALSE
    /\ prune = FALSE
    /\ n_levels \in 1 .. MaxTableLevels
    /\ raw \in InputTables(n_levels)
    /\ groups = << >>
    /\ group_marginals = << >>
    /\ niter = 0
    /\ own = ZeroCounts
    /\ \E acc \in InputAccumulators :
          cell_marginals = [set |-> TRUE, maps |-> <<acc>>]
    /\ obs = InitObs
    /\ uns = << >>
    /\ obs0 = InitObs
    /\ uns0 = << >>
    /\ to_remove = {}
    /\ to_keep = {}
    /\ ami_limit \in BOOLEAN

\* Lines 278-283.
ApplyRelabel ==
    /\ pc = "fn"
    /\ pc' = "relabelled"
    /\ groups' = Relabel(raw)
    /\ UNCHANGED <<error, params, calls, trace, key_added, return_low, prune,
                   n_levels, raw, group_marginals, niter, own, to_remove, to_keep,
                   ami_limit, cell_marginals, container>>

\* Line 371: prune_groups(groups).
ApplyPrune ==
    /\ pc = "relabelled"
    /\ pc' = "pruned"
    /\ to_remove' = prune_groups(GroupColumns(key_added, n_levels), groups, FALSE,
                                 ami_limit)
    /\ UNCHANGED <<error, params, calls, trace, key_added, return_low, prune,
                   n_levels, raw, groups, group_marginals, niter, own, to_keep,
                   ami_limit, cell_marginals, container>>

\* prune_groups(groups, inverse=True) on the same table.
ApplyPruneInverse ==
    /\ pc = "pruned"
    /\ pc' = "inverse"
    /\ to_keep' = prune_groups(GroupColumns(key_added, n_levels), groups, TRUE,
                               ami_limit)
    /\ UNCHANGED <<error, params, calls, trace, key_added, return_low, prune,
                   n_levels, raw, groups, group_marginals, niter, own, to_remove,
                   ami_limit, cell_marginals, container>>

\* Lines 340-356.
ApplyAggregate ==
    /\ pc = "inverse"
    /\ pc' = "aggregated"
    /\ uns' = << ("cell_marginals" :> CellMarginals(cell_marginals.maps[1], groups)) >>
    /\ UNCHANGED <<error, params, calls, trace, locals, cell_marginals, obs, obs0, uns0>>

NextPost ==
    \/ ApplyRelabel
    \/ ApplyPrune
    \/ ApplyPruneInverse
    \/ ApplyAggregate

SpecPost == InitPost /\ [][NextPost]_vars

\* ================================================ the attachment step alone
\* Lines 291-302 run again and again on the same adata.obs.
AttachKeys == {<<"a">>, <<"a", "b">>}

ApplyAttach ==
    /\ pc = "idle"
    /\ calls < MaxCalls
    /\ calls' = calls + 1
    /\ \E L \in 1 .. MaxLevels, key \in AttachKeys, low \in BOOLEAN :
        \E tab \in EngineTables(L) :
            /\ n_levels' = L
            /\ raw' = tab
            /\ groups' = Relabel(tab)
            /\ key_added' = key
            /\ return_low' = low
            /\ obs' = AttachColumns(obs, key, Relabel(tab), low)
    /\ obs0' = obs
    /\ UNCHANGED <<pc, error, params, trace, prune, group_marginals, niter, own,
                   to_remove, to_keep, ami_limit, cell_marginals, uns, uns0>>

NextAttach ==
    \/ ApplyAttach

SpecAttach == Init /\ [][NextAttach]_vars

\* ==================================================== the output of a call
\* The last call of a process, on a container and a global that earlier
\* calls may have used: the whole pipeline, from either function.

\* What an earlier call nested_model(adata, collect_marginals=True,
\* return_low=True) left when the engine answered PriorTable and the sampler
\* stayed there for two callback invocations (the first of a process takes
\* the except branch of line 256, the second is counted).
PriorTable == CHOOSE t \in Tables({IdentityColumn}, {MergeAllMap}, MaxLevels) : TRUE

PriorMap == Accumulated(<<IdentityColumn>>)

PriorGroupMarginals ==
    [i \in 1 .. MaxLevels |->
        [b \in 0 .. NumNodes |-> IF b = NonemptyB(PriorTable, i - 1) THEN 2 ELSE 0]]

PriorObs == AttachColumns(InitObs, <<"a">>, Relabel(PriorTable), TRUE)

PriorUns ==
    << ("stats" :> (StatsKeys("nested_model", TRUE) \cup {"mf_entropy"}))
       @@ ("cell_marginals" :> CellMarginals(PriorMap, Relabel(PriorTable)))
       @@ ("group_marginals" :>
              [i \in 1 .. MaxLevels |-> TrimVector(PriorGroupMarginals[i])])
       @@ ("params" :> [equilibrate |-> TRUE, collect_marginals |-> TRUE,
                        prune |-> FALSE]) >>

PriorGlobal == [set |-> TRUE, maps |-> [i \in 1 .. MaxLevels |-> PriorMap]]

InitOutput ==
    /\ pc = "idle"
    /\ error = "none"
    /\ fn = "none"
    /\ calls = MaxCalls - 1
    /\ trace = << >>
    /\ collect_marginals = FALSE
    /\ equilibrate = FALSE
    /\ key_added = << >>
    /\ return_low = FALSE
    /\ prune = FALSE
    /\ n_levels = 0
    /\ raw = << >>
    /\ groups = << >>
    /\ group_marginals = << >>
    /\ niter = 0
    /\ own = ZeroCounts
    /\ \/ cell_marginals = Unset /\ obs = InitObs /\ uns = << >>
       \/ cell_marginals = PriorGlobal /\ obs = InitObs /\ uns = << >>
       \/ cell_marginals = PriorGlobal /\ obs = PriorObs /\ uns = PriorUns
    /\ obs0 = obs
    /\ uns0 = uns
    /\ to_remove = {}
    /\ to_keep = {}
    /\ ami_limit = FALSE

SpecOutput == InitOutput /\ [][Next]_vars

\* ================================================================== claims
ConfigError == "ValueError: collect without equilibrate"

\* C1: every call of nested_model with collect_marginals=true and
\* equilibrate=false ends in the configuration error, and when the error is
\* raised no engine operation (seeding the generator included) has been
\* invoked in that call, also with a non-zero random_seed.
C1_FailsBeforeAnyEngineCall ==
    /\ (pc # "idle" /\ fn = "nested_model" /\ collect_marginals /\ ~equilibrate)
          => (pc = "failed" /\ error = ConfigError)
    /\ (pc = "failed" /\ error = ConfigError) => trace = << >>

\* C2: when a call fails, adata.obs and adata.uns are what they were when
\* the call was entered: nothing is written before every step that can fail
\* has succeeded.
C2_FailureLeavesContainerUnchanged ==
    pc = "failed" => (obs = obs0 /\ uns = uns0)

\* C3: both accumulators start from zero at the beginning of every
\* collection phase, and the level-0 vertex counts and the group counts a
\* call reports hold only counts of that call's own callback invocations.
C3_AccumulatorsStartFromZero ==
    /\ (pc = "collecting" /\ niter = 0) =>
          /\ \A i \in DOMAIN group_marginals :
                \A b \in DOMAIN group_marginals[i] : group_marginals[i][b] = 0
          /\ \A i \in DOMAIN cell_marginals.maps :
                cell_marginals.maps[i].none \/ cell_marginals.maps[i].n = 0
    /\ (pc \in {"trim", "prune", "finalize", "done"} /\ collect_marginals) =>
          LET c0 == uns[1]["cell_marginals"][1]
          IN  \A n \in Nodes : \A g \in DOMAIN c0[n] : c0[n][g] <= own[n][g]
    /\ (pc \in {"prune", "finalize", "done"} /\ collect_marginals) =>
          \A i \in DOMAIN group_marginals :
             SumOver(group_marginals[i], DOMAIN group_marginals[i]) <= niter

\* The levels whose columns the attachment step concatenates.
AttachedLevels == IF return_low THEN 0 .. (n_levels - 1) ELSE 1 .. (n_levels - 1)

\* C4: after the attachment step has run on an adata.obs that may hold the
\* columns of an earlier run, there is exactly one column
\* '<prefix>_level_<i>' per attached level, holding that level's labels;
\* no other column starts with '<prefix>_level_'; the columns that do not
\* start with it are the ones that were there before, unchanged and in order.
C4_AttachReplacesPrefixedColumns ==
    calls >= 1 =>
        LET pre == LevelPrefix(key_added)
            other(c) == ~StartsWith(c.name, pre)
        IN  /\ \A l \in AttachedLevels :
                 /\ Cardinality({i \in DOMAIN obs :
                                   obs[i].name = ColumnName(key_added, l)}) = 1
                 /\ \A i \in DOMAIN obs :
                       obs[i].name = ColumnName(key_added, l) => obs[i].col = groups[l + 1]
            /\ \A i \in DOMAIN obs :
                 StartsWith(obs[i].name, pre) =>
                    \E l \in AttachedLevels : obs[i].name = ColumnName(key_added, l)
            /\ SelectSeq(obs, other) = SelectSeq(obs0, other)

\* C4's case: the second run attaches level 0 alone where the first run, with
\* the same prefix, had left a level-1 column.
C4_Witness ==
    /\ calls = 2
    /\ n_levels = 1
    /\ return_low
    /\ \E i \in DOMAIN obs0 : obs0[i].name = ColumnName(key_added, 1)
    /\ \E i \in DOMAIN obs0 : obs0[i].name = <<"c">>

Pruned == pc \in {"pruned", "inverse", "aggregated"}

\* Levels l-1 and l (0-based) hold the same partition, with AMI equal to 1.
IdenticalPair(l) ==
    /\ SamePartition(Labels(groups[l]), Labels(groups[l + 1]))
    /\ AmiIsOne(Labels(groups[l]), Labels(groups[l + 1]), ami_limit)

\* C5: prune_groups(groups) returns exactly the column names of the later
\* level l of every consecutive pair (l-1, l), l = 1..L-1, whose columns hold
\* the same partition; neither a level that differs from its predecessor nor
\* the predecessor of an identical pair is returned.
C5_PruneReturnsLaterLevel ==
    Pruned =>
        to_remove = {ColumnName(key_added, l) :
                        l \in {k \in 1 .. (n_levels - 1) : IdenticalPair(k)}}

Aggregated == pc = "aggregated"

\* The canonical level-0 groups that share a node with group gl of level i-1.
CoOccurring(i, gl) ==
    {g0 \in 0 .. (Cardinality({raw[1][v] : v \in Nodes}) - 1) :
        \E v \in Nodes : /\ LabelOf(groups[1], v) = Str(g0)
                         /\ LabelOf(groups[i], v) = Str(gl)}

\* C6: for every level l >= 1 and canonical group gl of it, the derived
\* column cell_marginals[l][:, gl] is, node by node, the sum of the level-0
\* count columns of exactly the canonical level-0 groups that share a node
\* with gl; the derived matrix has N rows and B_l columns.
C6_DerivedColumnsSumCoOccurringGroups ==
    Aggregated =>
        LET cm == uns[1]["cell_marginals"]
            c0 == cm[1]
        IN  /\ DOMAIN cm = 1 .. n_levels
            /\ \A i \in 2 .. n_levels :
                 LET B == Cardinality({raw[i][v] : v \in Nodes})
                 IN  /\ DOMAIN cm[i] = Nodes
                     /\ \A n \in Nodes :
                          /\ DOMAIN cm[i][n] = 0 .. (B - 1)
                          /\ \A gl \in 0 .. (B - 1) :
                               cm[i][n][gl] = SumOver(c0[n], CoOccurring(i, gl))

\* C6's case: a coarser group made of two level-0 groups that both hold
\* counts, beside another group of the same level.
C6_Witness ==
    /\ Aggregated
    /\ \E i \in 2 .. n_levels : \E gl \in 0 .. (NumGroups(groups[i]) - 1) :
         /\ NumGroups(groups[i]) >= 2
         /\ \E n \in Nodes : \E a, b \in CoOccurring(i, gl) :
              /\ a # b
              /\ uns[1]["cell_marginals"][1][n][a] > 0
              /\ uns[1]["cell_marginals"][1][n][b] > 0

Relabelled == pc # "fn"

\* C7: at every level the distinct raw ids map one-to-one onto the labels
\* '0'..'B_l-1': two nodes have equal labels iff they had equal raw ids, and
\* every label of that range is carried by a node.  The raw table stays as
\* the engine gave it.
C7_RelabelIsBijectionOntoRange ==
    /\ [](Relabelled =>
            \A i \in 1 .. n_levels :
               LET B == Cardinality({raw[i][v] : v \in Nodes})
               IN  /\ \A m, n \in Nodes :
                        (LabelOf(groups[i], m) = LabelOf(groups[i], n))
                           <=> (raw[i][m] = raw[i][n])
                   /\ {LabelOf(groups[i], n) : n \in Nodes} = {Str(k) : k \in 0 .. (B - 1)})
    /\ [][raw' = raw]_vars

\* C7's case: a level with non-dense raw ids has been relabelled.
C7_Witness ==
    /\ pc = "relabelled"
    /\ \E i \in 1 .. n_levels :
         /\ Cardinality({raw[i][v] : v \in Nodes}) = 2
         /\ \A v \in Nodes : raw[i][v] # 1

FirstSeenRank(col, r) ==
    Cardinality({q \in {col[v] : v \in Nodes} : FirstIndex(col, q) < FirstIndex(col, r)})

\* C8 as stated: the label of a raw id is the rank of its first occurrence
\* scanning the nodes 0..N-1, and two raw columns with the same partition get
\* the same canonical column whatever their id numbering.
C8_LabelIsFirstOccurrenceRank ==
    Relabelled =>
        /\ \A i \in 1 .. n_levels : \A n \in Nodes :
             LabelOf(groups[i], n) = Str(FirstSeenRank(raw[i], raw[i][n]))
        /\ \A i, j \in 1 .. n_levels :
             SamePartition(raw[i], raw[j]) => Labels(groups[i]) = Labels(groups[j])

\* C8 as amended: the label of a raw id is its rank among the level's
\* distinct raw ids in ascending numeric order, and two raw columns whose ids
\* are in the same relative order get the same canonical column.
C8_LabelIsAscendingRank ==
    Relabelled =>
        /\ \A i \in 1 .. n_levels : \A n \in Nodes :
             LabelOf(groups[i], n) =
                Str(Cardinality({q \in {raw[i][v] : v \in Nodes} : q < raw[i][n]}))
        /\ \A i, j \in 1 .. n_levels :
             (\A m, n \in Nodes : (raw[i][m] < raw[i][n]) <=> (raw[j][m] < raw[j][n]))
                => Labels(groups[i]) = Labels(groups[j])

\* C8's case: the ids' first occurrences are not in ascending order.
C8_Witness ==
    /\ pc = "relabelled"
    /\ \E i \in 1 .. n_levels : raw[i][0] > raw[i][1]

PhaseRank(e) ==
    CASE e \in {"seed_rng", "build_graph", "NestedBlockState"} -> 0
      [] e = "Minimize" -> 1
      [] e = "Sweep" -> 2
      [] e = "Equilibrate" -> 3
      [] e = "MarginalCollect" -> 4
      [] e = "Relabel" -> 5
      [] e = "Aggregate" -> 6
      [] e = "Prune" -> 7
      [] OTHER -> 8

\* C9: the phases of a call occur in the order Init, Minimize, Sweep,
\* Equilibrate, MarginalCollect, Relabel, Aggregate, Prune, Finalize, none
\* twice; MarginalCollect only after Equilibrate; Aggregate and Prune before
\* Finalize attaches the label columns and the statistics.
C9_PhasesInOrder ==
    /\ \A i, j \in DOMAIN trace :
         i < j =>
            /\ PhaseRank(trace[i]) <= PhaseRank(trace[j])
            /\ PhaseRank(trace[i]) \in 1 .. 7 => PhaseRank(trace[i]) < PhaseRank(trace[j])
            /\ trace[i] # trace[j]
    /\ \A j \in DOMAIN trace :
         trace[j] = "MarginalCollect" => \E i \in 1 .. (j - 1) : trace[i] = "Equilibrate"

PrunedBoth == pc \in {"inverse", "aggregated"}

\* C10 as stated: the result of inverse=True is the complement of the result
\* of inverse=False within all L level columns.
C10_InverseIsComplementInAllColumns ==
    PrunedBoth =>
        /\ to_keep \cap to_remove = {}
        /\ to_keep \cup to_remove = Range(GroupColumns(key_added, n_levels))

\* C10 as amended: the two results are disjoint and their union is the
\* columns of levels 0..L-2, one per compared pair; the column of the last
\* level is in neither.
C10_InverseIsComplementInComparedColumns ==
    PrunedBoth =>
        /\ to_keep \cap to_remove = {}
        /\ to_keep \cup to_remove = {ColumnName(key_added, l) : l \in 0 .. (n_levels - 2)}

\* C10's case: a table of which one pair is identical and another is not.
C10_Witness ==
    /\ pc = "inverse"
    /\ to_remove # {}
    /\ to_keep # {}

\* ------------------------------------------------------------------- C11
HasEntry(u, k) == u # << >> /\ k \in DOMAIN u[1]

\* C11: when a call has succeeded, adata.uns['nsbm'] has the entries
\* 'cell_marginals' and 'group_marginals', one item per level each, exactly
\* when that call had collect_marginals=true; a call without collection
\* leaves neither entry, whatever an earlier call stored, and does not run
\* the aggregation step.
C11_MarginalsIffCollected ==
    pc = "done" =>
        /\ HasEntry(uns, "cell_marginals") <=> collect_marginals
        /\ HasEntry(uns, "group_marginals") <=> collect_marginals
        /\ ("Aggregate" \in Range(trace)) <=> collect_marginals
        /\ collect_marginals =>
              /\ Len(uns[1]["cell_marginals"]) = n_levels
              /\ Len(uns[1]["group_marginals"]) = n_levels

\* C11's case: a call without collection has succeeded on a container in
\* which the call before it had stored both marginals entries.
C11_Witness ==
    /\ pc = "done"
    /\ ~collect_marginals
    /\ HasEntry(uns0, "cell_marginals")
    /\ HasEntry(uns0, "group_marginals")

\* ------------------------------------------------------------------- C12
HasLevelColumn(o, l) ==
    \E i \in DOMAIN o :
        o[i].name = ColumnName(key_added, l) /\ o[i].col = groups[l + 1]

\* C12: once the columns are attached, adata.obs holds the column of level
\* l, for l in 0 .. L-1, exactly when l >= 1 or return_low is true; and with
\* collect_marginals=true the 'cell_marginals' entry has one N-row matrix
\* for level 0 and one for every level 1 .. L-1, whatever return_low is.
C12_ReturnLowHidesOnlyTheColumn ==
    /\ pc \in {"stats", "aggregate", "trim", "prune"} =>
          \A l \in 0 .. (n_levels - 1) :
              HasLevelColumn(obs, l) <=> (l >= 1 \/ return_low)
    /\ (collect_marginals /\ pc \in {"trim", "prune", "finalize", "done"}) =>
          /\ DOMAIN uns[1]["cell_marginals"] = 1 .. n_levels
          /\ \A i \in 1 .. n_levels : DOMAIN uns[1]["cell_marginals"][i] = Nodes

\* C12's case: a collecting call with return_low=false on two or more
\* levels has stored its marginals, on a container that held a level-0
\* column of the same prefix when the call began.
C12_Witness ==
    /\ pc = "prune"
    /\ collect_marginals
    /\ ~return_low
    /\ n_levels >= 2
    /\ \E i \in DOMAIN obs0 : obs0[i].name = ColumnName(key_added, 0)

\* ------------------------------------------------------------------- C13
\* The trimming step has acted in the running call.
TrimRan ==
    /\ pc # "idle"
    /\ "Aggregate" \in Range(trace)
    /\ HasEntry(uns, "group_marginals")

PrefixToLastNonzero(v) ==
    IF Nonzero(v) = {} THEN << >>
    ELSE [i \in 1 .. (MaxOf(Nonzero(v)) + 1) |-> v[i - 1]]

\* C13: the stored vector of every level is the accumulator's prefix up to
\* and including its highest nonzero index, and an accumulator without a
\* nonzero entry is stored as a zero-length vector without the call failing.
C13_TrimKeepsPrefixToLastNonzero ==
    TrimRan =>
        /\ pc # "failed" \/ error # "ValueError: zero-size array"
        /\ uns[1]["group_marginals"] =
              [i \in 1 .. n_levels |-> PrefixToLastNonzero(group_marginals[i])]

\* ------------------------------------------------------------------- C14
\* C14: on a hierarchy of exactly one level a call with prune=true finds
\* nothing to remove, removes no column and completes.
C14_OneLevelPruneIsNoOp ==
    (n_levels = 1 /\ prune) =>
        /\ to_remove = {}
        /\ obs = AttachColumns(obs0, key_added, groups, return_low)
        /\ pc # "failed"

\* ------------------------------------------------------------------- C15
\* C15: a call with prune=true on two or more levels does not fail, its
\* adata.obs is the attached columns without those of the removal set, names
\* and labels untouched, and the cell marginals cover all L levels.
C15_PruneRemovesExactlyTheRemovalSet ==
    (prune /\ n_levels >= 2) =>
        /\ pc # "failed"
        /\ obs = DropColumns(AttachColumns(obs0, key_added, groups, return_low),
                             to_remove)
        /\ collect_marginals => Len(uns[1]["cell_marginals"]) = n_levels

\* ------------------------------------------------------------------- C16
\* C16: column g of the level-0 count matrix holds the counts the engine
\* collected for the raw group id that was relabelled to canonical label g.
C16_CountColumnsFollowCanonicalLabels ==
    pc = "aggregated" =>
        \A n \in Nodes, g \in 0 .. (NumGroups(groups[1]) - 1) :
            uns[1]["cell_marginals"][1][n][g] =
                cell_marginals.maps[1].cnt[n][AsCategory(raw[1]).categories[g + 1]]

\* ------------------------------------------------------------------- C17
\* C17: after K invocations of the callback in one collection phase every
\* level's group accumulator sums to K, every level's vertex accumulator
\* has received K samples and every node's level-0 counts sum to K.
C17_EveryInvocationCounted ==
    (pc = "collecting" /\ niter > 0) =>
        /\ \A i \in 1 .. n_levels :
              SumOver(group_marginals[i], 0 .. NumNodes) = niter
        /\ cell_marginals.set
        /\ Len(cell_marginals.maps) = n_levels
        /\ \A i \in 1 .. n_levels : cell_marginals.maps[i].n = niter
        /\ \A v \in Nodes : SumOver(cell_marginals.maps[1].cnt[v], RawIds) = niter

====
